---- MODULE Spec2Model ----
(***************************************************************************)
(* Model of clustering/active_clustering.py: the Seed Sampler              *)
(* (sample_cluster_seeds), the algorithm dispatch (cluster), the feature   *)
(* extractor dispatch (extract_features) and the multi-seed comparison     *)
(* harness (compare_algorithms).                                           *)
(*                                                                         *)
(* The external clustering library is a black box: each external call is   *)
(* recorded with the arguments it receives, may consume draws from the     *)
(* process-wide random source, and may fail.                               *)
(***************************************************************************)
EXTENDS Integers, Sequences, FiniteSets, TLC

VARIABLES op, features, labels, num_seed_points_per_label, semisupervised_algo,
          feature_extractor, num_clusters, max_feedback_given, algorithms,
          num_seeds, optimize, rng, pc, seed, ai, algo_results, outcome,
          cluster_seeds, clusterer, extracted, calls, last, trace, draws,
          ext_total

vars == <<op, features, labels, num_seed_points_per_label, semisupervised_algo,
          feature_extractor, num_clusters, max_feedback_given, algorithms,
          num_seeds, optimize, rng, pc, seed, ai, algo_results, outcome,
          cluster_seeds, clusterer, extracted, calls, last, trace, draws,
          ext_total>>

(* ------------------------------ bounds --------------------------------- *)
MaxPoints == 4
MaxLabel == 2
MaxK == 3
MaxAlgos == 2
MaxSeeds == 2
MaxClusters == 2
MaxExtDraws == 1
RngMod == 12

(* ----------------------------- constants ------------------------------- *)
Unknown == -1

SupportedAlgorithms == {"KMeans", "PCKMeans", "ConstrainedKMeans", "SeededKMeans"}

SupportedExtractors == {"identity", "BERT", "TFIDF"}

AlgorithmIds == SupportedAlgorithms \cup {"Spectral"}

ExtractorIds == SupportedExtractors \cup {"Word2Vec"}

DefaultAlgorithms == <<"KMeans", "PCKMeans", "ConstrainedKMeans", "SeededKMeans">>

LabelVals == 0..(MaxLabel - 1)

SeqsUpTo(S, n) == UNION {[1..m -> S] : m \in 0..n}

\* the feature matrix: one row per point; the rows are never inspected by this
\* code, so a row is represented by the identity of its point
FeatureRows(n) == [i \in 1..n |-> i]

None == <<>>

Min(a, b) == IF a < b THEN a ELSE b

(* ----------------------- process-wide random source -------------------- *)
\* one step of the generator
Advance(r) == (r + 7) % RngMod

RECURSIVE AdvanceN(_, _)
AdvanceN(r, n) == IF n = 0 THEN r ELSE AdvanceN(Advance(r), n - 1)

\* set_seed(seed): the state after reseeding is a function of the seed only
set_seed(s) == s % RngMod

\* random._randbelow(n): a value in 0..n-1 taken from the generator state
randbelow(n, r) == [value |-> r % n, rng |-> Advance(r)]

\* random.sample(range(n), k) for a small population: the pool method,
\*   for i in range(k): j = randbelow(n-i); result[i] = pool[j];
\*                      pool[j] = pool[n-i-1]
\* a sample_pool that does not move the last pool entry into the chosen slot:
\* it samples with replacement
RECURSIVE sample_pool_with_replacement(_, _, _, _, _, _)
sample_pool_with_replacement(pool, n, k, i, result, r) ==
    IF i >= k THEN [status |-> "ok", sample |-> result, rng |-> r]
    ELSE LET d == randbelow(n - i, r)
             j == d.value
         IN sample_pool_with_replacement(pool, n, k, i + 1,
                                         result \cup {pool[j + 1]}, d.rng)

RECURSIVE sample_pool(_, _, _, _, _, _)
sample_pool(pool, n, k, i, result, r) ==
    IF i >= k THEN [status |-> "ok", sample |-> result, rng |-> r]
    ELSE LET d == randbelow(n - i, r)
             j == d.value
         IN sample_pool([pool EXCEPT ![j + 1] = pool[n - i]], n, k, i + 1,
                        result \cup {pool[j + 1]}, d.rng)

\* a random_sample that clamps k to the population instead of raising
random_sample_clamped(n, k, r) ==
    sample_pool([x \in 1..n |-> x - 1], n, Min(k, n), 0, {}, r)

random_sample(n, k, r) ==
    IF ~(0 <= k /\ k <= n)
    THEN [status |-> "error", sample |-> {}, rng |-> r]
    ELSE sample_pool([x \in 1..n |-> x - 1], n, k, 0, {}, r)

(* -------------------------- sample_cluster_seeds ----------------------- *)
\* lines 44-48: group the points by label; a dict keeps its keys in insertion
\* order, so the keys are a sequence in order of first occurrence
\* a key sequence kept in ascending label order
InsertSorted(keys, l) ==
    LET lower == SelectSeq(keys, LAMBDA x : x < l)
        upper == SelectSeq(keys, LAMBDA x : x > l)
    IN lower \o <<l>> \o upper

\* a group_points whose keys come out sorted by label value instead of in
\* order of first occurrence
RECURSIVE group_points_sorted(_, _, _, _, _, _)
group_points_sorted(fs, ls, i, keys, points, original_index) ==
    IF i > Min(Len(fs), Len(ls))
    THEN [keys |-> keys, points_by_cluster |-> points,
          original_index_by_cluster |-> original_index]
    ELSE LET l == ls[i]
         IN group_points_sorted(fs, ls, i + 1, InsertSorted(keys, l),
                                [points EXCEPT ![l] = Append(@, fs[i])],
                                [original_index EXCEPT ![l] = Append(@, i - 1)])

RECURSIVE group_points(_, _, _, _, _, _)
group_points(fs, ls, i, keys, points, original_index) ==
    IF i > Min(Len(fs), Len(ls))
    THEN [keys |-> keys, points_by_cluster |-> points,
          original_index_by_cluster |-> original_index]
    ELSE LET l == ls[i]
             seen == \E j \in 1..Len(keys) : keys[j] = l
         IN group_points(fs, ls, i + 1,
                         IF seen THEN keys ELSE Append(keys, l),
                         [points EXCEPT ![l] = Append(@, fs[i])],
                         [original_index EXCEPT ![l] = Append(@, i - 1)])

\* lines 52-57: the block of one label group
group_block(label, n, sample) ==
    [i \in 1..n |-> IF (i - 1) \in sample THEN label ELSE Unknown]

\* lines 49-58: one random.sample call per label group, in key order
RECURSIVE sample_loop(_, _, _, _, _, _, _)
sample_loop(keys, g, points, k, out, r, nsamples) ==
    IF g > Len(keys)
    THEN [status |-> "ok", exc |-> "", value |-> out, rng |-> r,
          samples |-> nsamples]
    ELSE LET label == keys[g]
             n == Len(points[label])
             s == random_sample(n, k, r)
         IN IF s.status = "error"
            THEN [status |-> "error", exc |-> "ValueError", value |-> <<>>,
                  rng |-> s.rng, samples |-> nsamples + 1]
            ELSE sample_loop(keys, g + 1, points, k,
                             out \o group_block(label, n, s.sample), s.rng,
                             nsamples + 1)

sample_cluster_seeds(fs, ls, k, r) ==
    LET grp == group_points(fs, ls, 1, <<>>, [l \in LabelVals |-> <<>>],
                            [l \in LabelVals |-> <<>>])
    IN sample_loop(grp.keys, 1, grp.points_by_cluster, k, <<>>, r, 0)

(* ------------------------------- cluster ------------------------------- *)
\* one call into the external clustering library, with the arguments it gets
ExtCall(fn, args, n, X, y, budget) ==
    [fn |-> fn, args |-> args, n_clusters |-> n, X |-> X, y |-> y,
     max_queries_cnt |-> budget]

\* a baseline whose fit call is handed the label vector as supervision
KMeansCallsWithLabels(fs, ls, n) ==
    << ExtCall("KMeans", {"n_clusters"}, n, None, None, None),
       ExtCall("KMeans.fit", {"X", "y"}, 0, fs, ls, None) >>

\* the external calls of each branch of cluster, in program order
KMeansCalls(fs, ls, n) ==
    << ExtCall("KMeans", {"n_clusters"}, n, None, None, None),
       ExtCall("KMeans.fit", {"X"}, 0, fs, None, None) >>

PCKMeansCalls(fs, ls, n, budget) ==
    << ExtCall("ExampleOracle", {"labels", "max_queries_cnt"}, 0, None, ls, budget),
       ExtCall("MinMax", {"n_clusters"}, n, None, None, None),
       ExtCall("MinMax.fit", {"X", "oracle"}, 0, fs, None, None),
       ExtCall("PCKMeans", {"n_clusters"}, n, None, None, None),
       ExtCall("PCKMeans.fit", {"X", "ml", "cl"}, 0, fs, None, None) >>

SeedCtorCalls(algo, n) ==
    << ExtCall(algo, {"n_clusters"}, n, None, None, None) >>

SeedFitCalls(algo, fs, y) ==
    << ExtCall(algo \o ".fit", {"X", "y"}, 0, fs, y, None) >>

ClusterResult(status, exc, names, cs, r, seeds, scalls, samples, who) ==
    [status |-> status, exc |-> exc, names |-> names, calls |-> cs, rng |-> r,
     seeds |-> seeds, sampler_calls |-> scalls, samples |-> samples,
     clusterer |-> who]

\* run the external calls cs from generator state r: the call numbered fail_at
\* raises (0: none does), otherwise the library consumes d draws
RunExternal(algo, cs, r, d, fail_at, seeds, scalls, samples) ==
    IF fail_at \in 1..Len(cs)
    THEN ClusterResult("error", "ExternalError", "", SubSeq(cs, 1, fail_at), r,
                       seeds, scalls, samples, "")
    ELSE ClusterResult("ok", "", "", cs, AdvanceN(r, d), seeds, scalls, samples,
                       algo)

\* a seeded branch that samples from a freshly reseeded source instead of the
\* shared one
SeededBranchReseeding(algo, fs, ls, n, r, d, fail_at) ==
    IF fail_at = 1
    THEN RunExternal(algo, SeedCtorCalls(algo, n), r, d, 1, <<>>, 0, 0)
    ELSE LET s == sample_cluster_seeds(fs, ls, 1, set_seed(0))
         IN RunExternal(algo,
                        SeedCtorCalls(algo, n) \o SeedFitCalls(algo, fs, s.value),
                        s.rng, d, fail_at, s.value, 1, s.samples)

\* lines 74-81: constructor, then the Seed Sampler, then fit with its result
SeededBranch(algo, fs, ls, n, r, d, fail_at) ==
    IF fail_at = 1
    THEN RunExternal(algo, SeedCtorCalls(algo, n), r, d, 1, <<>>, 0, 0)
    ELSE LET s == sample_cluster_seeds(fs, ls, 1, r)
         IN IF s.status = "error"
            THEN ClusterResult("error", s.exc, "", SeedCtorCalls(algo, n), s.rng,
                               <<>>, 1, s.samples, "")
            ELSE RunExternal(algo,
                             SeedCtorCalls(algo, n) \o SeedFitCalls(algo, fs, s.value),
                             s.rng, d, fail_at, s.value, 1, s.samples)

\* a cluster without the membership check: an identifier it does not know is
\* run as the unsupervised baseline
cluster_unchecked(algo, fs, ls, n, budget, r, d, fail_at, opt) ==
    IF algo = "PCKMeans"
    THEN RunExternal(algo, PCKMeansCalls(fs, ls, n, budget), r, d, fail_at,
                     <<>>, 0, 0)
    ELSE IF algo \in {"ConstrainedKMeans", "SeededKMeans"}
    THEN SeededBranch(algo, fs, ls, n, r, d, fail_at)
    ELSE RunExternal(algo, KMeansCalls(fs, ls, n), r, d, fail_at, <<>>, 0, 0)

\* lines 60-84; opt = TRUE is the interpreter run with assertions removed (-O)
cluster(algo, fs, ls, n, budget, r, d, fail_at, opt) ==
    IF ~opt /\ algo \notin SupportedAlgorithms
    THEN ClusterResult("error", "AssertionError", "", <<>>, r, <<>>, 0, 0, "")
    ELSE IF algo = "KMeans"
    THEN RunExternal(algo, KMeansCalls(fs, ls, n), r, d, fail_at, <<>>, 0, 0)
    ELSE IF algo = "PCKMeans"
    THEN RunExternal(algo, PCKMeansCalls(fs, ls, n, budget), r, d, fail_at,
                     <<>>, 0, 0)
    ELSE IF algo = "ConstrainedKMeans"
    THEN SeededBranch(algo, fs, ls, n, r, d, fail_at)
    ELSE IF algo = "SeededKMeans"
    THEN SeededBranch(algo, fs, ls, n, r, d, fail_at)
    ELSE ClusterResult("error", "ValueError", algo, <<>>, r, <<>>, 0, 0, "")

(* --------------------------- extract_features -------------------------- *)
\* lines 103-114; a function that falls off its end returns None
extract_features(dataset, fe, opt) ==
    IF ~opt /\ fe \notin SupportedExtractors
    THEN [status |-> "error", exc |-> "AssertionError", names |-> "",
          kind |-> "", rows |-> 0]
    ELSE IF fe = "identity"
    THEN [status |-> "ok", exc |-> "", names |-> "", kind |-> "dataset",
          rows |-> Len(dataset)]
    ELSE IF fe = "TFIDF"
    THEN [status |-> "ok", exc |-> "", names |-> "", kind |-> "matrix",
          rows |-> Len(dataset)]
    ELSE IF fe = "BERT"
    THEN [status |-> "error", exc |-> "NotImplementedError", names |-> "",
          kind |-> "", rows |-> 0]
    ELSE [status |-> "ok", exc |-> "", names |-> "", kind |-> "None",
          rows |-> 0]

(* ------------------------------ state ---------------------------------- *)
NoOutcome == [status |-> "none", exc |-> "", names |-> ""]

NoExtract == [kind |-> "", rows |-> 0]

NoLast == [algo |-> "", rng_before |-> 0, draws_before |-> 0, seeds |-> <<>>,
           sampler_calls |-> 0, samples |-> 0]

EmptyTable == [a \in AlgorithmIds |-> <<>>]

\* the metric record of one run: its rand and nmi values come from the
\* external metrics, so a record is represented by the run that produced it
MetricRecord(s, i) == [iter |-> s, pos |-> i]

\* an append that puts the newest record first
AppendRecordFirst(table, algo, rec) == [table EXCEPT ![algo] = <<rec>> \o @]

\* line 98: algo_results[semisupervised_algo].append(record)
AppendRecord(table, algo, rec) == [table EXCEPT ![algo] = Append(@, rec)]

Event(ev, s, i, r) == [ev |-> ev, seed |-> s, ai |-> i, rng |-> r]

InitCommon ==
    /\ pc = "start"
    /\ seed = 0
    /\ ai = 0
    /\ algo_results = EmptyTable
    /\ outcome = NoOutcome
    /\ cluster_seeds = <<>>
    /\ clusterer = ""
    /\ extracted = NoExtract
    /\ calls = <<>>
    /\ last = NoLast
    /\ trace = <<>>
    /\ draws = 0
    /\ ext_total = 0

InitSample ==
    /\ op = "sample"
    /\ labels \in SeqsUpTo(LabelVals, MaxPoints)
    /\ features = FeatureRows(Len(labels))
    /\ num_seed_points_per_label \in 0..MaxK
    /\ rng \in 0..(RngMod - 1)
    /\ semisupervised_algo = ""
    /\ feature_extractor = ""
    /\ num_clusters = MaxClusters
    /\ max_feedback_given = None
    /\ algorithms = <<>>
    /\ num_seeds = 0
    /\ optimize = FALSE

InitCluster ==
    /\ op = "cluster"
    /\ labels \in SeqsUpTo(LabelVals, MaxPoints)
    /\ features = FeatureRows(Len(labels))
    /\ num_seed_points_per_label = 1
    /\ rng \in 0..(RngMod - 1)
    /\ semisupervised_algo \in AlgorithmIds
    /\ feature_extractor = ""
    /\ num_clusters \in 1..MaxClusters
    /\ max_feedback_given \in {None, <<MaxPoints>>}
    /\ algorithms = <<>>
    /\ num_seeds = 0
    /\ optimize \in BOOLEAN

InitExtract ==
    /\ op = "extract"
    /\ labels = <<>>
    /\ features \in {FeatureRows(n) : n \in 0..MaxPoints}
    /\ num_seed_points_per_label = 1
    /\ rng = 0
    /\ semisupervised_algo = ""
    /\ feature_extractor \in ExtractorIds
    /\ num_clusters = MaxClusters
    /\ max_feedback_given = None
    /\ algorithms = <<>>
    /\ num_seeds = 0
    /\ optimize \in BOOLEAN

InitCompare ==
    /\ op = "compare"
    /\ labels \in SeqsUpTo(LabelVals, MaxPoints)
    /\ features = FeatureRows(Len(labels))
    /\ num_seed_points_per_label = 1
    /\ rng \in 0..(RngMod - 1)
    /\ semisupervised_algo = ""
    /\ feature_extractor = ""
    /\ num_clusters = MaxClusters
    /\ max_feedback_given = None
    /\ algorithms \in SeqsUpTo(AlgorithmIds, MaxAlgos)
    /\ num_seeds \in 0..MaxSeeds
    /\ optimize \in BOOLEAN

Init == InitCommon /\ (InitSample \/ InitCluster \/ InitExtract)

InitHarness == InitCommon /\ (InitCluster \/ InitCompare)

(* ------------------------------ actions -------------------------------- *)
\* a call of sample_cluster_seeds(features, labels, num_seed_points_per_label)
SampleCall ==
    /\ op = "sample" /\ pc = "start"
    /\ LET s == sample_cluster_seeds(features, labels,
                                     num_seed_points_per_label, rng)
       IN /\ cluster_seeds' = s.value
          /\ outcome' = [status |-> s.status, exc |-> s.exc, names |-> ""]
          /\ rng' = s.rng
          /\ last' = [NoLast EXCEPT !.rng_before = rng, !.seeds = s.value,
                                    !.sampler_calls = 1, !.samples = s.samples]
    /\ pc' = "done"
    /\ UNCHANGED <<op, features, labels, num_seed_points_per_label,
                   semisupervised_algo, feature_extractor, num_clusters,
                   max_feedback_given, algorithms, num_seeds, optimize, seed,
                   ai, algo_results, clusterer, extracted, calls, trace, draws,
                   ext_total>>

\* the effect of one cluster(...) call on the state shared by its callers
ClusterEffect(c, d) ==
    /\ outcome' = [status |-> c.status, exc |-> c.exc, names |-> c.names]
    /\ clusterer' = c.clusterer
    /\ calls' = c.calls
    /\ rng' = c.rng
    /\ cluster_seeds' = c.seeds
    /\ ext_total' = ext_total + Len(c.calls)
    /\ last' = [algo |-> semisupervised_algo', rng_before |-> rng,
                draws_before |-> draws, seeds |-> c.seeds,
                sampler_calls |-> c.sampler_calls, samples |-> c.samples]
    /\ draws' = draws + c.samples + (IF c.status = "ok" THEN d ELSE 0)

\* a direct call of cluster(semisupervised_algo, features, labels, ...)
ClusterCall ==
    /\ op = "cluster" /\ pc = "start"
    /\ semisupervised_algo' = semisupervised_algo
    /\ \E d \in 0..MaxExtDraws, fail_at \in 0..Len(DefaultAlgorithms) + 1 :
          ClusterEffect(cluster(semisupervised_algo, features, labels,
                                num_clusters, max_feedback_given, rng, d,
                                fail_at, optimize), d)
    /\ pc' = "done"
    /\ UNCHANGED <<op, features, labels, num_seed_points_per_label,
                   feature_extractor, num_clusters, max_feedback_given,
                   algorithms, num_seeds, optimize, seed, ai, algo_results,
                   extracted, trace>>

\* a call of extract_features(features, feature_extractor)
ExtractCall ==
    /\ op = "extract" /\ pc = "start"
    /\ LET e == extract_features(features, feature_extractor, optimize)
       IN /\ outcome' = [status |-> e.status, exc |-> e.exc, names |-> e.names]
          /\ extracted' = [kind |-> e.kind, rows |-> e.rows]
    /\ pc' = "done"
    /\ UNCHANGED <<op, features, labels, num_seed_points_per_label,
                   semisupervised_algo, feature_extractor, num_clusters,
                   max_feedback_given, algorithms, num_seeds, optimize, rng,
                   seed, ai, algo_results, cluster_seeds, clusterer, calls,
                   last, trace, draws, ext_total>>

\* line 87: compare_algorithms starts with an empty table
Enter ==
    /\ op = "compare" /\ pc = "start"
    /\ algo_results' = EmptyTable
    /\ seed' = 0
    /\ pc' = "seed_loop"
    /\ UNCHANGED <<op, features, labels, num_seed_points_per_label,
                   semisupervised_algo, feature_extractor, num_clusters,
                   max_feedback_given, algorithms, num_seeds, optimize, rng,
                   ai, outcome, cluster_seeds, clusterer, extracted, calls,
                   last, trace, draws, ext_total>>

\* a seed loop that seeds the random source in its first iteration only
ReseedFirstOnly ==
    /\ op = "compare" /\ pc = "seed_loop" /\ seed < num_seeds
    /\ rng' = IF seed = 0 THEN set_seed(seed) ELSE rng
    /\ draws' = 0
    /\ ai' = 1
    /\ trace' = Append(trace, Event("reseed", seed, 0,
                                    IF seed = 0 THEN set_seed(seed) ELSE rng))
    /\ pc' = "algo_loop"
    /\ UNCHANGED <<op, features, labels, num_seed_points_per_label,
                   semisupervised_algo, feature_extractor, num_clusters,
                   max_feedback_given, algorithms, num_seeds, optimize, seed,
                   algo_results, outcome, cluster_seeds, clusterer, extracted,
                   calls, last, ext_total>>

\* lines 88-91: the next seed of range(num_seeds); reseed the random source
Reseed ==
    /\ op = "compare" /\ pc = "seed_loop" /\ seed < num_seeds
    /\ rng' = set_seed(seed)
    /\ draws' = 0
    /\ ai' = 1
    /\ trace' = Append(trace, Event("reseed", seed, 0, set_seed(seed)))
    /\ pc' = "algo_loop"
    /\ UNCHANGED <<op, features, labels, num_seed_points_per_label,
                   semisupervised_algo, feature_extractor, num_clusters,
                   max_feedback_given, algorithms, num_seeds, optimize, seed,
                   algo_results, outcome, cluster_seeds, clusterer, extracted,
                   calls, last, ext_total>>

\* lines 92-95: the next algorithm of the list is dispatched to cluster
Dispatch ==
    /\ op = "compare" /\ pc = "algo_loop" /\ ai <= Len(algorithms)
    /\ semisupervised_algo' = algorithms[ai]
    /\ \E d \in 0..MaxExtDraws, fail_at \in 0..Len(DefaultAlgorithms) + 1 :
          LET c == cluster(algorithms[ai], features, labels, num_clusters,
                           max_feedback_given, rng, d, fail_at, optimize)
          IN /\ ClusterEffect(c, d)
             /\ pc' = IF c.status = "ok" THEN "metrics" ELSE "raised"
    /\ trace' = Append(trace, Event("dispatch", seed, ai,
                                    IF ai = 1 THEN rng ELSE 0))
    /\ UNCHANGED <<op, features, labels, num_seed_points_per_label,
                   feature_extractor, num_clusters, max_feedback_given,
                   algorithms, num_seeds, optimize, seed, ai, algo_results,
                   extracted>>

\* lines 96-98: the metrics of the run are appended to the algorithm's entry
AppendMetrics ==
    /\ op = "compare" /\ pc = "metrics"
    /\ algo_results' = AppendRecord(algo_results, semisupervised_algo,
                                    MetricRecord(seed, ai))
    /\ trace' = Append(trace, Event("append", seed, ai, 0))
    /\ ai' = ai + 1
    /\ pc' = "algo_loop"
    /\ UNCHANGED <<op, features, labels, num_seed_points_per_label,
                   semisupervised_algo, feature_extractor, num_clusters,
                   max_feedback_given, algorithms, num_seeds, optimize, rng,
                   seed, outcome, cluster_seeds, clusterer, extracted, calls,
                   last, draws, ext_total>>

\* lines 92, 99-100: the algorithm list is exhausted, on to the next seed
NextSeed ==
    /\ op = "compare" /\ pc = "algo_loop" /\ ai > Len(algorithms)
    /\ seed' = seed + 1
    /\ pc' = "seed_loop"
    /\ UNCHANGED <<op, features, labels, num_seed_points_per_label,
                   semisupervised_algo, feature_extractor, num_clusters,
                   max_feedback_given, algorithms, num_seeds, optimize, rng,
                   ai, algo_results, outcome, cluster_seeds, clusterer,
                   extracted, calls, last, trace, draws, ext_total>>

\* lines 88, 101: range(num_seeds) is exhausted, the table is returned
Return ==
    /\ op = "compare" /\ pc = "seed_loop" /\ seed >= num_seeds
    /\ outcome' = [status |-> "ok", exc |-> "", names |-> ""]
    /\ pc' = "returned"
    /\ UNCHANGED <<op, features, labels, num_seed_points_per_label,
                   semisupervised_algo, feature_extractor, num_clusters,
                   max_feedback_given, algorithms, num_seeds, optimize, rng,
                   seed, ai, algo_results, cluster_seeds, clusterer, extracted,
                   calls, last, trace, draws, ext_total>>

Next == SampleCall \/ ClusterCall \/ ExtractCall

NextHarness ==
    ClusterCall \/ Enter \/ Reseed \/ Dispatch \/ AppendMetrics \/ NextSeed \/ Return

Spec == Init /\ [][Next]_vars

SpecHarness == InitHarness /\ [][NextHarness]_vars

(* ---------------------- properties: Seed Sampler ----------------------- *)
LabelSet(ls) == {ls[i] : i \in 1..Len(ls)}

Count(sq, v) == Cardinality({i \in 1..Len(sq) : sq[i] = v})

SampleDone == op = "sample" /\ pc = "done"

\* position of the first point with label l
FirstOcc(ls, l) == CHOOSE i \in 1..Len(ls) : ls[i] = l /\ \A j \in 1..(i - 1) : ls[j] # l

\* point i precedes point j in the order "label group by first occurrence,
\* then original position"
Precedes(ls, i, j) ==
    \/ FirstOcc(ls, ls[i]) < FirstOcc(ls, ls[j])
    \/ ls[i] = ls[j] /\ i < j

\* the point described by position j of the regrouped sequence
RegroupedPoint(ls, j) ==
    CHOOSE i \in 1..Len(ls) :
        Cardinality({h \in 1..Len(ls) : Precedes(ls, h, i)}) = j - 1

\* C1: with a feature matrix as long as the label vector and a positive k not
\* larger than any label group, sample_cluster_seeds returns a vector as long
\* as its input in which every distinct label occurs exactly k times and every
\* other entry is the sentinel -1.
C1_ExactlyKPerLabel ==
    (/\ SampleDone
     /\ Len(features) = Len(labels)
     /\ num_seed_points_per_label >= 1
     /\ \A l \in LabelSet(labels) : num_seed_points_per_label <= Count(labels, l))
    => /\ outcome.status = "ok"
       /\ Len(cluster_seeds) = Len(labels)
       /\ \A l \in LabelSet(labels) :
             Count(cluster_seeds, l) = num_seed_points_per_label
       /\ \A i \in 1..Len(cluster_seeds) :
             cluster_seeds[i] \in LabelSet(labels) \cup {Unknown}
       /\ Count(cluster_seeds, Unknown) =
             Len(labels) - num_seed_points_per_label * Cardinality(LabelSet(labels))

C1_Witness ==
    /\ SampleDone
    /\ outcome.status = "ok"
    /\ num_seed_points_per_label = 2
    /\ Cardinality(LabelSet(labels)) = 2
    /\ Len(cluster_seeds) = 4
    /\ Count(cluster_seeds, Unknown) = 0

\* C4: entry i of the vector returned by sample_cluster_seeds is the true label
\* of input point i or the sentinel -1, for every ordering of the labels.
C4_AlignedWithInput ==
    (SampleDone /\ outcome.status = "ok")
    => \A i \in 1..Len(cluster_seeds) :
          cluster_seeds[i] \in {labels[i], Unknown}

\* C5: if some label group has fewer points than num_seed_points_per_label,
\* sample_cluster_seeds signals an error and returns no vector, whichever
\* group is too small.
C5_InsufficientGroupRaises ==
    (/\ SampleDone
     /\ \E l \in LabelSet(labels) : Count(labels, l) < num_seed_points_per_label)
    => /\ outcome.status = "error"
       /\ outcome.exc = "ValueError"
       /\ cluster_seeds = <<>>

\* the first group is large enough, a later one is not
C5_Witness ==
    /\ SampleDone
    /\ outcome.status = "error"
    /\ Len(labels) >= 3
    /\ Count(labels, labels[1]) >= num_seed_points_per_label
    /\ \E l \in LabelSet(labels) : Count(labels, l) < num_seed_points_per_label

\* C9: the output of sample_cluster_seeds is ordered by label group: groups in
\* order of first occurrence, each a contiguous block as long as the group,
\* original relative order inside a block; position j describes the j-th point
\* of the regrouped sequence.
C9_OrderedByLabelGroup ==
    (SampleDone /\ outcome.status = "ok" /\ Len(features) = Len(labels))
    => /\ Len(cluster_seeds) = Len(labels)
       /\ \A j \in 1..Len(cluster_seeds) :
             cluster_seeds[j] \in {labels[RegroupedPoint(labels, j)], Unknown}
       /\ \A l \in LabelSet(labels) :
             Cardinality({j \in 1..Len(cluster_seeds) :
                             /\ labels[RegroupedPoint(labels, j)] = l
                             /\ cluster_seeds[j] = l})
                = num_seed_points_per_label

\* interleaved labels: the revealed entry of the last position belongs to a
\* point whose own position holds the other label
C9_Witness ==
    /\ SampleDone
    /\ outcome.status = "ok"
    /\ labels = <<1, 0, 1>>
    /\ cluster_seeds[3] = 0
    /\ RegroupedPoint(labels, 3) = 2

(* ------------------- properties: unsupported values -------------------- *)
\* C6: an unsupported feature extractor given to extract_features and an
\* unsupported algorithm identifier given to cluster produce an immediate
\* fatal error that names the unsupported value, and no supported value is
\* rejected as unsupported.
C6_UnsupportedNamedSupportedAccepted ==
    /\ (op = "cluster" /\ pc = "done" /\ semisupervised_algo \notin SupportedAlgorithms)
       => (outcome.status = "error" /\ outcome.names = semisupervised_algo
           /\ calls = <<>>)
    /\ (op = "extract" /\ pc = "done" /\ feature_extractor \notin SupportedExtractors)
       => (outcome.status = "error" /\ outcome.names = feature_extractor)
    /\ (op = "cluster" /\ pc = "done" /\ semisupervised_algo \in SupportedAlgorithms)
       => outcome.exc \notin {"AssertionError", "ValueError", "NotImplementedError"}
    /\ (op = "extract" /\ pc = "done" /\ feature_extractor \in SupportedExtractors)
       => outcome.exc \notin {"AssertionError", "ValueError", "NotImplementedError"}

(* --------------------- properties: the harness ------------------------- *)
Occurrences(a) == Count(algorithms, a)

Requested == {algorithms[i] : i \in 1..Len(algorithms)}

Returned == op = "compare" /\ pc = "returned"

\* C2 (as stated): when compare_algorithms returns, the entry of each requested
\* algorithm holds exactly num_seeds records, the record at position s being
\* the one of seed iteration s.
C2_ExactlyNPerAlgorithm ==
    Returned
    => \A a \in Requested :
          /\ Len(algo_results[a]) = num_seeds
          /\ \A s \in 0..(num_seeds - 1) : algo_results[a][s + 1].iter = s

\* C2 (amended): when compare_algorithms returns, the entry of each identifier
\* holds num_seeds records for every occurrence of the identifier in the
\* algorithms list, grouped by seed in seed order and, within a seed, in list
\* order; for an identifier listed once that is exactly num_seeds records, the
\* one at position s being that of seed iteration s.
C2_NPerOccurrenceInSeedOrder ==
    Returned
    => \A a \in AlgorithmIds :
          /\ Len(algo_results[a]) = num_seeds * Occurrences(a)
          /\ \A p \in 1..Len(algo_results[a]) :
                /\ algo_results[a][p].iter = (p - 1) \div Occurrences(a)
                /\ algorithms[algo_results[a][p].pos] = a
          /\ \A p, q \in 1..Len(algo_results[a]) :
                (p < q /\ algo_results[a][p].iter = algo_results[a][q].iter)
                => algo_results[a][p].pos < algo_results[a][q].pos

C2_Witness ==
    /\ Returned
    /\ num_seeds = 2
    /\ Len(algorithms) = 2
    /\ algorithms[1] # algorithms[2]
    /\ Len(algo_results[algorithms[1]]) = 2
    /\ Len(algo_results[algorithms[2]]) = 2

\* number of external calls of a completed cluster call
CallCount(a) == IF a = "PCKMeans" THEN 5 ELSE 2

RECURSIVE CallsOfPrefix(_)
CallsOfPrefix(n) ==
    IF n = 0 THEN 0 ELSE CallCount(algorithms[n]) + CallsOfPrefix(n - 1)

UnrecognizedRaised ==
    /\ \/ op = "cluster" /\ pc = "done"
       \/ op = "compare" /\ pc = "raised"
    /\ semisupervised_algo \notin SupportedAlgorithms

\* C3 (as stated): when an unrecognized identifier is given to cluster or is an
\* element of the algorithms list of compare_algorithms, the error is signaled
\* before any external constructor or fit call of that call has run.
C3_RaisesBeforeAnyExternalCall ==
    UnrecognizedRaised => (outcome.status = "error" /\ ext_total = 0)

\* C3 (amended): an unrecognized identifier raises when it reaches cluster,
\* before any external constructor or fit call of that cluster call, without
\* running the Seed Sampler or touching the random source; compare_algorithms
\* checks an identifier only when it dispatches it, so the external calls of
\* the list elements before it, in this and in every earlier seed iteration,
\* have already run, and no table is returned.
C3_RaisesBeforeExternalCallsOfItsDispatch ==
    UnrecognizedRaised
    => /\ outcome.status = "error"
       /\ outcome.exc \in {"AssertionError", "ValueError"}
       /\ calls = <<>>
       /\ clusterer = ""
       /\ last.sampler_calls = 0
       /\ rng = last.rng_before
       /\ op = "compare"
          => /\ ext_total = seed * CallsOfPrefix(Len(algorithms)) + CallsOfPrefix(ai - 1)
             /\ Len(algo_results[semisupervised_algo]) = 0

\* an unrecognized identifier behind a recognized one, in the second iteration
C3_Witness ==
    /\ op = "compare" /\ pc = "raised"
    /\ semisupervised_algo \notin SupportedAlgorithms
    /\ ai = 2
    /\ ext_total > 0

\* the last cluster call, direct or dispatched, was for the baseline
KMeansRan ==
    /\ \/ op = "cluster" /\ pc = "done"
       \/ op = "compare" /\ pc \in {"metrics", "raised"}
    /\ semisupervised_algo = "KMeans"

\* C7: the KMeans baseline never receives the label vector: the arguments of
\* its constructor and fit call are the number of clusters and the features
\* only, whatever the labels are, and the call runs neither the Seed Sampler
\* nor the oracle and takes nothing from the random source itself.
C7_KMeansSeesNoLabels ==
    KMeansRan
    => /\ Len(calls) \in 1..2
       /\ calls[1] = [fn |-> "KMeans", args |-> {"n_clusters"},
                      n_clusters |-> num_clusters, X |-> <<>>, y |-> <<>>,
                      max_queries_cnt |-> <<>>]
       /\ Len(calls) = 2
          => calls[2] = [fn |-> "KMeans.fit", args |-> {"X"}, n_clusters |-> 0,
                         X |-> features, y |-> <<>>, max_queries_cnt |-> <<>>]
       /\ \A i \in 1..Len(calls) :
             /\ calls[i].fn \notin {"ExampleOracle", "MinMax", "MinMax.fit"}
             /\ calls[i].args \cap {"y", "labels", "oracle", "ml", "cl"} = {}
       /\ last.sampler_calls = 0
       /\ last.samples = 0
       /\ cluster_seeds = <<>>
       /\ outcome.status = "error" => rng = last.rng_before

C7_Witness ==
    /\ op = "compare" /\ pc = "metrics"
    /\ semisupervised_algo = "KMeans"
    /\ Len(calls) = 2
    /\ Cardinality(LabelSet(labels)) = 2
    /\ seed = 1

\* length of the event sequence of one seed iteration: the reseed, then a
\* dispatch and an append per algorithm
IterationEvents == 1 + 2 * Len(algorithms)

\* the event that stands at position p of a run of compare_algorithms
ExpectedEvent(p) ==
    LET s == (p - 1) \div IterationEvents
        o == (p - 1) % IterationEvents
    IN IF o = 0 THEN Event("reseed", s, 0, s % RngMod)
       ELSE IF o % 2 = 1
       THEN Event("dispatch", s, (o + 1) \div 2, IF o = 1 THEN s % RngMod ELSE 0)
       ELSE Event("append", s, o \div 2, 0)

\* C8: in a run of compare_algorithms, for seed s = 0, 1, ... the random source
\* is reseeded from s once before any algorithm of iteration s is dispatched,
\* the algorithms are dispatched in list order, each record is appended before
\* the next dispatch, and the random-source state the first algorithm of
\* iteration s sees depends on s alone.
C8_StrictEventOrder ==
    op = "compare"
    => /\ \A p \in 1..Len(trace) : trace[p] = ExpectedEvent(p)
       /\ Len(trace) <= num_seeds * IterationEvents
       /\ Returned => Len(trace) = num_seeds * IterationEvents
       /\ \A a \in AlgorithmIds :
             Len(algo_results[a]) =
                Cardinality({p \in 1..Len(trace) :
                                /\ trace[p].ev = "append"
                                /\ algorithms[trace[p].ai] = a})
       /\ (pc = "algo_loop" /\ ai = 1) => rng = seed % RngMod

C8_Witness ==
    /\ Returned
    /\ num_seeds = 2
    /\ Len(algorithms) = 2
    /\ Len(trace) = 10
    /\ draws > 0

SeededAlgorithms == {"ConstrainedKMeans", "SeededKMeans"}

\* the last dispatch of the harness was a seeded algorithm that got its sample
SeededDispatched ==
    /\ op = "compare" /\ pc \in {"metrics", "raised"}
    /\ semisupervised_algo \in SeededAlgorithms
    /\ last.sampler_calls = 1

\* C10: within a seed iteration every dispatch of ConstrainedKMeans or
\* SeededKMeans draws its own sample, one point per true cluster, from the
\* shared random source without reseeding: the vector it receives is fixed by
\* the seed and the draws consumed before it in the iteration, and a Seed
\* Sampler call makes one random.sample draw per distinct label.
C10_FreshSamplePerDispatch ==
    /\ (op = "compare" /\ pc \in {"algo_loop", "metrics"})
       => rng = AdvanceN(seed % RngMod, draws)
    /\ (op = "compare" /\ pc = "metrics" /\ semisupervised_algo \in SeededAlgorithms)
       => last.sampler_calls = 1
    /\ SeededDispatched
       => /\ last.rng_before = AdvanceN(seed % RngMod, last.draws_before)
          /\ cluster_seeds =
                sample_cluster_seeds(features, labels, 1,
                                     AdvanceN(seed % RngMod, last.draws_before)).value
          /\ last.samples = Cardinality(LabelSet(labels))
          /\ \A l \in LabelSet(labels) : Count(cluster_seeds, l) = 1
          /\ Len(calls) = 2 => calls[2].y = cluster_seeds

\* a seeded algorithm listed second, after draws were consumed in its iteration
C10_Witness ==
    /\ SeededDispatched
    /\ pc = "metrics"
    /\ ai = 2
    /\ last.draws_before > 0
    /\ Cardinality(LabelSet(labels)) = 2
    /\ cluster_seeds #
          sample_cluster_seeds(features, labels, 1, seed % RngMod).value

====
